---- MODULE Spec2Model ----
(***************************************************************************)
(* A model of font.py: the font scanner and installer for DaVinci Resolve. *)
(* Font names and styles are sequences of one-character strings, so that   *)
(* lower-casing, the token regex and the character filter of               *)
(* normalize_font_name are computed character by character.                *)
(***************************************************************************)
EXTENDS Integers, Sequences, FiniteSets, Bags, TLC

\* ------------------------------------------------------------------ bounds

\* Longest input string given to normalize_font_name in SpecNorm.
MaxNameLen == 4

\* Most .drfx archives and most .setting files found under the scanned path.
MaxDrfx == 1

MaxSettings == 1

\* Most .setting files and most font files in one .drfx archive.
MaxInner == 1

MaxBundled == 1

\* Most font and style declarations in one .setting file.
MaxFonts == 2

MaxStyles == 1

\* Most items of the font registry and most font files in the font directories.
MaxRegistry == 1

MaxDirFiles == 1

\* Most replacement API keys the user types when the index fetch is rejected.
MaxKeys == 2

\* Most .setting files SpecExtract reads.
MaxExtract == 2

\* ------------------------------------------------------------- characters

UpperChars == <<"A","B","C","D","E","F","G","H","I","J","K","L","M",
                "N","O","P","Q","R","S","T","U","V","W","X","Y","Z">>

LowerChars == <<"a","b","c","d","e","f","g","h","i","j","k","l","m",
                "n","o","p","q","r","s","t","u","v","w","x","y","z">>

DigitChars == <<"0","1","2","3","4","5","6","7","8","9">>

\* The characters of the model in code-point order (the order sorted() uses).
CharOrder == <<" ", "-", ".">> \o DigitChars \o UpperChars \o <<"_">> \o LowerChars

Range(s) == {s[i] : i \in 1..Len(s)}

Ord(c) == CHOOSE i \in 1..Len(CharOrder) : CharOrder[i] = c

\* str.lower() on one character.
LowerChar(c) ==
    IF c \in Range(UpperChars)
    THEN LowerChars[CHOOSE i \in 1..Len(UpperChars) : UpperChars[i] = c]
    ELSE c

\* str.lower()
ToLower(s) == [i \in 1..Len(s) |-> LowerChar(s[i])]

\* \w of the regex engine: letters, digits and the underscore.
IsWordChar(c) == c \in Range(UpperChars) \cup Range(LowerChars) \cup Range(DigitChars) \cup {"_"}

\* The complement of the class [^a-z0-9].
IsLowerAlnum(c) == c \in Range(LowerChars) \cup Range(DigitChars)

\* ------------------------------------------------- normalize_font_name

\* The alternatives of the regex, in the order written.
NameTokens ==
    << <<"p","s">>, <<"m","t">>, <<"s","t","d">>, <<"p","r","o">>,
       <<"l","i","g","h","t">>, <<"b","o","l","d">>,
       <<"r","e","g","u","l","a","r">>, <<"m","e","d","i","u","m">>,
       <<"i","t","a","l","i","c">> >>

\* \b just before position i of s (i = Len(s)+1 is the end of the string).
WordBoundary(s, i) ==
    LET before == i > 1 /\ IsWordChar(s[i-1])
        after  == i <= Len(s) /\ IsWordChar(s[i])
    IN  before # after

\* The regex \b(token)\b matches at position i of s.
TokenAt(s, i, t) ==
    /\ i + Len(t) - 1 <= Len(s)
    /\ SubSeq(s, i, i + Len(t) - 1) = t
    /\ WordBoundary(s, i)
    /\ WordBoundary(s, i + Len(t))

\* re.sub(r'\b(ps|mt|...)\b', '', s): leftmost non-overlapping matches, scanned from i.
RECURSIVE RemoveTokens(_, _)
RemoveTokens(s, i) ==
    IF i > Len(s) THEN <<>>
    ELSE IF \E k \in 1..Len(NameTokens) : TokenAt(s, i, NameTokens[k])
         THEN LET k == CHOOSE j \in 1..Len(NameTokens) :
                          /\ TokenAt(s, i, NameTokens[j])
                          /\ \A h \in 1..(j-1) : ~TokenAt(s, i, NameTokens[h])
              IN  RemoveTokens(s, i + Len(NameTokens[k]))
         ELSE <<s[i]>> \o RemoveTokens(s, i + 1)

\* re.sub(r'[^a-z0-9]', '', s)
StripNonAlnum(s) == SelectSeq(s, IsLowerAlnum)

normalize_font_name(name) == StripNonAlnum(RemoveTokens(ToLower(name), 1))

\* ------------------------------------------------------- names and styles

Futura     == <<"F","u","t","u","r","a">>

FuturaLc   == <<"f","u","t","u","r","a">>

FuturaBold == <<"F","u","t","u","r","a"," ","B","o","l","d">>

Inter      == <<"I","n","t","e","r">>

Regular    == <<"R","e","g","u","l","a","r">>

Bold       == <<"B","o","l","d">>

Italic     == <<"I","t","a","l","i","c">>

BoldItalic == <<"B","o","l","d"," ","I","t","a","l","i","c">>

Light      == <<"L","i","g","h","t">>

FuturaTtf  == Futura \o <<".","t","t","f">>

FuturaUpper == <<"F","U","T","U","R","A">>

FuturaUpperOtf == FuturaUpper \o <<".","o","t","f">>

\* The None of the program.
None == "None"

\* ------------------------------------------------------ generic helpers

\* sub in s
Contains(s, sub) ==
    \E i \in 1..(Len(s) - Len(sub) + 1) : SubSeq(s, i, i + Len(sub) - 1) = sub

\* a < b for strings, by code points (a proper prefix is smaller).
RECURSIVE StrLess(_, _)
StrLess(a, b) ==
    IF b = <<>> THEN FALSE
    ELSE IF a = <<>> THEN TRUE
    ELSE IF Ord(Head(a)) # Ord(Head(b)) THEN Ord(Head(a)) < Ord(Head(b))
    ELSE StrLess(Tail(a), Tail(b))

\* Mutant of PairLeq: the style is compared first.
PairLeq_StyleFirst(p, q) ==
    \/ StrLess(p[2], q[2])
    \/ p[2] = q[2] /\ (p[1] = q[1] \/ StrLess(p[1], q[1]))

\* p <= q for (family, style) tuples, as tuple comparison does.
PairLeq(p, q) ==
    \/ StrLess(p[1], q[1])
    \/ p[1] = q[1] /\ (p[2] = q[2] \/ StrLess(p[2], q[2]))

\* sorted(S) for a set of (family, style) tuples.
RECURSIVE SortedPairs(_)
SortedPairs(S) ==
    IF S = {} THEN <<>>
    ELSE LET m == CHOOSE x \in S : \A y \in S : PairLeq(x, y)
         IN  <<m>> \o SortedPairs(S \ {m})

IsSpace(c) == c = " "

\* str.strip()
RECURSIVE Strip(_)
Strip(s) ==
    IF s = <<>> THEN s
    ELSE IF IsSpace(Head(s)) THEN Strip(Tail(s))
    ELSE IF IsSpace(s[Len(s)]) THEN Strip(SubSeq(s, 1, Len(s) - 1))
    ELSE s

\* ------------------------------------------- parse_fonts_from_setting

\* A .setting file: what the two findall calls return for its text, and how
\* reading it ends: "ok"; "permission" = PermissionError; "decode" = utf-8
\* fails and the latin-1 retry reads it; "decode_error" = utf-8 fails and the
\* retry raises; "error" = any other exception.
\* Mutant of ParsePairs: a family without a style of its own gives no pair.
ParsePairs_DropUnstyled(file) ==
    [i \in 1..(IF Len(file.fonts) <= Len(file.styles) THEN Len(file.fonts) ELSE Len(file.styles)) |->
        <<Strip(file.fonts[i]), Strip(file.styles[i])>>]

ParsePairs(file) ==
    [i \in 1..Len(file.fonts) |->
        <<Strip(file.fonts[i]),
          Strip(IF i <= Len(file.styles) THEN file.styles[i] ELSE Regular)>>]

\* Mutant of parse_fonts_from_setting: the pairs are kept whatever the read did.
parse_fonts_from_setting_KeepOnError(file) == ParsePairs(file)

parse_fonts_from_setting(file) ==
    IF file.read \in {"ok", "decode"} THEN ParsePairs(file) ELSE <<>>

\* What parse_fonts_from_setting prints about the file ("" = nothing).
ParseDiagnostic(file) ==
    CASE file.read = "ok" -> ""
      [] file.read = "permission" -> "Permission denied when reading"
      [] file.read = "decode" -> "Had to use alternative encoding"
      [] OTHER -> "Could not read"

\* ---------------------------------------------------- get_bundled_fonts

RECURSIVE BeforeFirstDot(_)
BeforeFirstDot(s) ==
    IF s = <<>> \/ Head(s) = "." THEN <<>>
    ELSE <<Head(s)>> \o BeforeFirstDot(Tail(s))

\* path.suffix.lower() in ['.ttf', '.otf']
HasFontSuffix(s) ==
    /\ Len(s) > 4
    /\ ToLower(SubSeq(s, Len(s) - 3, Len(s))) \in {<<".","t","t","f">>, <<".","o","t","f">>}

get_bundled_fonts(files) == {BeforeFirstDot(f) : f \in {g \in files : HasFontSuffix(g)}}

\* ----------------------------------------- get_system_fonts_with_styles

\* The style detected from a font name.
InferStyle(name) ==
    LET lower == ToLower(name)
    IN  IF Contains(lower, ToLower(Bold)) /\ Contains(lower, ToLower(Italic)) THEN BoldItalic
        ELSE IF Contains(lower, ToLower(Bold)) THEN Bold
        ELSE IF Contains(lower, ToLower(Italic)) THEN Italic
        ELSE IF Contains(lower, ToLower(Light)) THEN Light
        ELSE Regular

EmptyInventory == [fonts |-> {}, lowercase_map |-> <<>>, styles |-> <<>>]

\* One name added: installed_fonts.add, lowercase_map[...] = name, styles append.
AddFont(inv, name) ==
    [fonts |-> inv.fonts \cup {name},
     lowercase_map |->
        [k \in DOMAIN inv.lowercase_map \cup {ToLower(name)} |->
            IF k = ToLower(name) THEN name ELSE inv.lowercase_map[k]],
     styles |->
        [k \in DOMAIN inv.styles \cup {name} |->
            IF k = name
            THEN (IF name \in DOMAIN inv.styles THEN inv.styles[name] ELSE <<>>)
                    \o <<InferStyle(name)>>
            ELSE inv.styles[k]]]

\* The loop over the items of the font registry (system_profiler).
RECURSIVE AddRegistry(_, _)
AddRegistry(inv, names) ==
    IF names = <<>> THEN inv
    ELSE AddRegistry(IF Head(names) # <<>> THEN AddFont(inv, Head(names)) ELSE inv,
                     Tail(names))

\* The loop over the font files of the standard directories.
RECURSIVE AddDirectory(_, _)
AddDirectory(inv, stems) ==
    IF stems = <<>> THEN inv
    ELSE AddDirectory(IF Head(stems) \notin inv.fonts THEN AddFont(inv, Head(stems)) ELSE inv,
                      Tail(stems))

\* Only the macOS branch fills the inventory; any other platform, or a failing
\* system_profiler call, leaves it empty.
get_system_fonts_with_styles(platform, registry, dirStems) ==
    IF platform = "Darwin"
    THEN AddDirectory(AddRegistry(EmptyInventory, registry), dirStems)
    ELSE EmptyInventory

\* The orders in which `for font in system_fonts` can go through the set.
Orders(fonts) ==
    {o \in [1..Cardinality(fonts) -> fonts] : \A i, j \in DOMAIN o : o[i] = o[j] => i = j}

\* The loop that fills normalized_map, going through the fonts in `order`:
\* if normalized: normalized_map[normalized] = font
RECURSIVE FillNormalized(_, _)
FillNormalized(map, order) ==
    IF order = <<>> THEN map
    ELSE LET font == Head(order)
             normalized == normalize_font_name(font)
         IN  FillNormalized(
                IF normalized # <<>>
                THEN [k \in DOMAIN map \cup {normalized} |->
                        IF k = normalized THEN font ELSE map[k]]
                ELSE map,
                Tail(order))

\* The normalized maps scan_all can build: the loop runs over a set, in any
\* order.
NormalizedMaps(fonts) == {FillNormalized(<<>>, o) : o \in Orders(fonts)}

\* ---------------------------------------------------- is_font_installed

\* font_name in system_fonts
ExactHit(font_name, system_fonts) == font_name \in system_fonts

\* font_name.lower() in lowercase_map
CaseHit(font_name, lcmap) == ToLower(font_name) \in DOMAIN lcmap

\* normalize_font_name(font_name) in normalized_map
NormHit(font_name, nmap) == normalize_font_name(font_name) \in DOMAIN nmap

\* Mutant of FamilyMatch: the normalized lookup tried first.
FamilyMatch_NormalizedFirst(font_name, system_fonts, lcmap, nmap) ==
    IF NormHit(font_name, nmap)
    THEN [found |-> TRUE, match_type |-> "normalized match",
          matched_name |-> nmap[normalize_font_name(font_name)]]
    ELSE IF ExactHit(font_name, system_fonts)
    THEN [found |-> TRUE, match_type |-> "exact match", matched_name |-> font_name]
    ELSE IF CaseHit(font_name, lcmap)
    THEN [found |-> TRUE, match_type |-> "case-insensitive match",
          matched_name |-> lcmap[ToLower(font_name)]]
    ELSE [found |-> FALSE, match_type |-> "", matched_name |-> <<>>]

\* (found, match_type, matched_name) of the if / elif / else chain.
FamilyMatch(font_name, system_fonts, lcmap, nmap) ==
    IF ExactHit(font_name, system_fonts)
    THEN [found |-> TRUE, match_type |-> "exact match", matched_name |-> font_name]
    ELSE IF CaseHit(font_name, lcmap)
    THEN [found |-> TRUE, match_type |-> "case-insensitive match",
          matched_name |-> lcmap[ToLower(font_name)]]
    ELSE IF NormHit(font_name, nmap)
    THEN [found |-> TRUE, match_type |-> "normalized match",
          matched_name |-> nmap[normalize_font_name(font_name)]]
    ELSE [found |-> FALSE, match_type |-> "", matched_name |-> <<>>]

\* installed_styles.get(matched_name, [])
StylesOf(styles, matched_name) ==
    IF matched_name \in DOMAIN styles THEN styles[matched_name] ELSE <<>>

\* Mutant of StyleCovered: only the literal style counts.
StyleCovered_LiteralOnly(style, font_styles) == style \in Range(font_styles)

\* style in font_styles or "Regular" in font_styles
StyleCovered(style, font_styles) ==
    style \in Range(font_styles) \/ Regular \in Range(font_styles)

is_font_installed(font_name, style, system_fonts, lcmap, nmap, styles) ==
    LET m == FamilyMatch(font_name, system_fonts, lcmap, nmap)
    IN  [found |-> m.found, match_type |-> m.match_type, matched_name |-> m.matched_name,
         style_available |-> m.found /\ StyleCovered(style, StylesOf(styles, m.matched_name))]

\* ------------------------------------------------------------ variables

VARIABLES
    npc,        \* position of the normalize driver: "in", "once", "twice"
    nx,         \* the string given to normalize_font_name
    n1,         \* normalize_font_name(nx)
    n2,         \* normalize_font_name(n1)
    mpc,        \* position of the is_font_installed driver: "in", "out"
    m_name,     \* font_name given to is_font_installed
    m_style,    \* style given to is_font_installed
    m_inv,      \* what get_system_fonts_with_styles returned
    m_order,    \* the order in which the loop over system_fonts went through them
    m_nmap,     \* the normalized map built from it
    m_result,   \* what is_font_installed returned
    xpc,        \* position of the extraction driver: "read", "sorted"
    x_left,     \* .setting files the extraction has still to read
    x_raw,      \* history: the bag of the pairs the files gave
    x_required, \* required_fonts while it is a set
    x_last,     \* history: how the last file was read, its pairs, its diagnostic
    x_failed,   \* history: a file could not be read
    x_out,      \* required_fonts once sorted
    spc,        \* position in search_alternative_font_providers: a provider, "returned", "raised"
    s_name,     \* font_name given to search_alternative_font_providers
    s_calls,    \* history: each search function called, how it ended, its requests
    s_result,   \* what search_alternative_font_providers returned (url None: it returned None)
    pc,                 \* position in scan_all
    dry_run,            \* argument of scan_all
    temp_exists,        \* TEMP_DIR exists on disk
    drfx_left,          \* .drfx files the loop has still to go through
    inner_left,         \* .setting files of the unpacked archive still to read
    settings_left,      \* .setting files the loop has still to go through
    required_set,       \* required_fonts while it is a set
    required_fonts,     \* required_fonts once sorted
    bundled_fonts,
    system_fonts,
    lowercase_map,
    installed_styles,
    normalized_map,
    idx,                \* index of the next requirement of the matching loop
    available,
    style_missing,
    completely_missing,
    match_log,          \* history: the calls of is_font_installed and their results
    missing,
    returned,           \* the value scan_all returned
    api_key,            \* GOOGLE_API_KEY
    fetch_count,        \* history: GET requests for the index
    fetch_failed,       \* history: the last GET failed
    prompt_count,       \* history: prompts for a new API key
    keys_given,         \* history: replacement keys typed
    google_fonts_index,
    missing_fonts,      \* the dict, as a sequence of entries in insertion order
    chain_i,            \* index of the family of the provider loop
    stage,              \* the provider the loop is at for that family
    to_download,
    alternative_sources,
    unavailable,
    answers,            \* history: each search request and what the provider returned
    download_only,      \* --downloadonly was given
    replace_existing,
    dl_stage,           \* the download loop scan_all is in: "google", "alt"
    dl_i,               \* index of the family of that loop
    staged,             \* the files under TEMP_DIR/fonts
    unsuccessful_downloads,
    download_log,       \* history: each download, its payload and its result
    dest,               \* the font directory: file name -> content
    pending,            \* staged fonts the install loop has still to go through
    installed_count,
    replaced_count,
    variable_count,
    skipped_count,
    install_last,       \* history: the last pass of the install loop
    closing_message     \* what __main__ printed after scan_all returned ("": nothing yet)

extractVars == <<xpc, x_left, x_raw, x_required, x_last, x_failed, x_out>>

scrapeVars == <<spc, s_name, s_calls, s_result>>

normVars == <<npc, nx, n1, n2, mpc, m_name, m_style, m_inv, m_order, m_nmap, m_result, extractVars,
              scrapeVars>>

scanVars == <<dry_run, temp_exists, drfx_left, inner_left, settings_left,
              required_set, required_fonts, bundled_fonts>>

inventoryVars == <<system_fonts, lowercase_map, installed_styles, normalized_map>>

matchVars == <<idx, available, style_missing, completely_missing, match_log, missing>>

indexVars == <<api_key, fetch_count, fetch_failed, prompt_count, keys_given, google_fonts_index>>

chainVars == <<missing_fonts, chain_i, stage, to_download, alternative_sources,
               unavailable, answers>>

downloadVars == <<replace_existing, dl_stage, dl_i, staged, unsuccessful_downloads, download_log>>

installVars == <<dest, pending, installed_count, replaced_count, variable_count,
                 skipped_count, install_last>>

acquireVars == <<download_only, downloadVars, installVars>>

mainVars == <<pc, returned, scanVars, inventoryVars, matchVars, indexVars, chainVars, acquireVars,
              closing_message>>

vars == <<normVars, mainVars>>

\* ------------------------------------------------ strings up to a length

RECURSIVE SeqsUpTo(_, _)
SeqsUpTo(S, n) ==
    IF n = 0 THEN {<<>>}
    ELSE LET shorter == SeqsUpTo(S, n - 1)
         IN  shorter \cup {Append(s, c) : s \in {t \in shorter : Len(t) = n - 1}, c \in S}

\* ------------------------------------------------------ input universes

ReqFamilies == {Futura, Inter}

ReqStyles == {Bold}

ReadOutcomes == {"ok", "permission", "decode", "decode_error", "error"}

SettingFiles ==
    [fonts : SeqsUpTo(ReqFamilies, MaxFonts),
     styles : SeqsUpTo(ReqStyles, MaxStyles),
     read : ReadOutcomes]

\* Files found in an unpacked .drfx archive.
BundledFiles == {FuturaTtf, FuturaUpperOtf}

\* Names the font registry and the font directories may hold.
InvNames == {FuturaLc, FuturaBold}

\* The same for SpecMatch, and the families it looks up.
MatchInvNames == {Futura, FuturaLc, FuturaBold, Futura \o <<" ">> \o Light, Inter}

MatchFamilies == {Futura, FuturaUpper, Inter}

MatchStyles == {Regular, Bold, Italic}

Platforms == {"Darwin", "Linux"}

\* Answers of the index endpoint to one GET.
FetchOutcomes == {"ok", "forbidden", "http_error", "network", "malformed"}

\* Indexes the endpoint may return: family -> variants.
IndexChoices == {<<>>, [f \in {Futura} |-> <<"regular", "700">>]}

ApiKeys == {"k1"}

\* How one scrape search ends: with a download URL or at one of its exits.
SearchOutcomes ==
    {"url", "search_exception", "search_status", "no_candidate",
     "page_exception", "page_status", "no_download"}

Providers == <<"1001Fonts", "DaFont", "FreeFonts.io">>

\* ---------------------------------------------------------------- Init

ScrapeIdle == spc = "idle" /\ s_name = <<>> /\ s_calls = <<>> /\ s_result = [url |-> None, source |-> None]

NormIdle == npc = "idle" /\ nx = <<>> /\ n1 = <<>> /\ n2 = <<>>

MatchIdle ==
    /\ mpc = "idle"
    /\ m_name = <<>>
    /\ m_style = <<>>
    /\ m_inv = EmptyInventory
    /\ m_order = <<>>
    /\ m_nmap = <<>>
    /\ m_result = None

\* x_last before any file was read.
NoFile ==
    [read |-> "none", fonts |-> 0, found |-> 0, diagnostic |-> "",
     matches |-> <<>>, style_matches |-> <<>>, pairs |-> <<>>]

ExtractIdle ==
    /\ xpc = "idle"
    /\ x_left = 0
    /\ x_raw = EmptyBag
    /\ x_required = {}
    /\ x_last = NoFile
    /\ x_failed = FALSE
    /\ x_out = <<>>

\* install_last before any pass of the install loop.
NoInstall ==
    [path |-> None, content |-> "none", existed |-> FALSE, variable |-> FALSE, copy |-> "none",
     before |-> [installed |-> 0, replaced |-> 0, variable |-> 0, skipped |-> 0, dest |-> <<>>]]

AcquireStart ==
    /\ replace_existing = FALSE
    /\ dl_stage = "google"
    /\ dl_i = 1
    /\ staged = {}
    /\ unsuccessful_downloads = <<>>
    /\ download_log = <<>>
    /\ dest = <<>>
    /\ pending = {}
    /\ installed_count = 0
    /\ replaced_count = 0
    /\ variable_count = 0
    /\ skipped_count = 0
    /\ install_last = NoInstall

MainStart(p) ==
    /\ pc = p
    /\ closing_message = ""
    /\ AcquireStart
    /\ returned = None
    /\ temp_exists = FALSE
    /\ drfx_left = 0
    /\ inner_left = 0
    /\ settings_left = 0
    /\ required_set = {}
    /\ required_fonts = <<>>
    /\ bundled_fonts = {}
    /\ system_fonts = {}
    /\ lowercase_map = <<>>
    /\ installed_styles = <<>>
    /\ normalized_map = <<>>
    /\ idx = 1
    /\ available = <<>>
    /\ style_missing = <<>>
    /\ completely_missing = <<>>
    /\ match_log = <<>>
    /\ missing = <<>>
    /\ api_key = "k0"
    /\ fetch_count = 0
    /\ fetch_failed = FALSE
    /\ prompt_count = 0
    /\ keys_given = 0
    /\ google_fonts_index = <<>>
    /\ missing_fonts = <<>>
    /\ chain_i = 1
    /\ stage = "index"
    /\ to_download = <<>>
    /\ alternative_sources = <<>>
    /\ unavailable = <<>>
    /\ answers = <<>>

Init ==
    /\ NormIdle
    /\ ScrapeIdle
    /\ MatchIdle
    /\ ExtractIdle
    /\ MainStart("start")
    /\ dry_run \in BOOLEAN
    /\ download_only = FALSE

\* ------------------------------------------------------ scan_all: scan

\* if not path.exists(): return []
PathMissing ==
    /\ pc = "start"
    /\ pc' = "done"
    /\ returned' = <<>>
    /\ UNCHANGED <<closing_message, normVars, scanVars, inventoryVars, matchVars, indexVars, chainVars,
                   acquireVars>>

\* The path exists. With use_drfx the .drfx files under it are listed; without
\* it none is looked at, as when there is none.
PathFound ==
    /\ pc = "start"
    /\ drfx_left' \in 0..MaxDrfx
    /\ pc' = "drfx"
    /\ UNCHANGED <<closing_message, normVars, returned, dry_run, temp_exists, inner_left, settings_left,
                   required_set, required_fonts, bundled_fonts, inventoryVars, matchVars, indexVars,
                   chainVars,
                   acquireVars>>

\* The fonts of a list of .setting files.
\* The font files an unpacked .drfx archive may hold.
ArchiveFonts == {fs \in SUBSET BundledFiles : Cardinality(fs) <= MaxBundled}

\* One pass of the loop over the .drfx files: the archive is unpacked under
\* TEMP_DIR, its font files are listed and its .setting files are found.
ScanDrfx ==
    /\ pc = "drfx"
    /\ drfx_left > 0
    /\ \E files \in ArchiveFonts :
        bundled_fonts' = bundled_fonts \cup get_bundled_fonts(files)
    /\ temp_exists' = TRUE
    /\ drfx_left' = drfx_left - 1
    /\ inner_left' \in 0..MaxInner
    /\ pc' = IF inner_left' = 0 THEN "drfx" ELSE "inner"
    /\ UNCHANGED <<closing_message, normVars, returned, dry_run, settings_left, required_set, required_fonts,
                   inventoryVars, matchVars, indexVars, chainVars,
                   acquireVars>>

\* One pass of the loop over the .setting files of the unpacked archive.
ScanInner ==
    /\ pc = "inner"
    /\ \E sf \in SettingFiles :
        required_set' = required_set \cup Range(parse_fonts_from_setting(sf))
    /\ inner_left' = inner_left - 1
    /\ pc' = IF inner_left' = 0 THEN "drfx" ELSE "inner"
    /\ UNCHANGED <<closing_message, normVars, returned, dry_run, temp_exists, drfx_left, settings_left,
                   required_fonts, bundled_fonts, inventoryVars, matchVars, indexVars,
                   chainVars,
                   acquireVars>>

\* The loop over the .drfx files is over. With use_settings the .setting files
\* under the path are listed; without it none is read.
EndDrfx ==
    /\ pc = "drfx"
    /\ drfx_left = 0
    /\ settings_left' \in 0..MaxSettings
    /\ pc' = "settings"
    /\ UNCHANGED <<closing_message, normVars, returned, dry_run, temp_exists, drfx_left, inner_left, required_set,
                   required_fonts, bundled_fonts, inventoryVars, matchVars, indexVars,
                   chainVars,
                   acquireVars>>

\* One pass of the loop over the .setting files found under the path.
ScanSetting ==
    /\ pc = "settings"
    /\ settings_left > 0
    /\ \E sf \in SettingFiles :
        required_set' = required_set \cup Range(parse_fonts_from_setting(sf))
    /\ settings_left' = settings_left - 1
    /\ UNCHANGED <<closing_message, normVars, pc, returned, dry_run, temp_exists, drfx_left, inner_left, required_fonts,
                   bundled_fonts, inventoryVars, matchVars, indexVars, chainVars,
                   acquireVars>>

\* required_fonts = sorted(set(required_fonts)), and the exit when nothing was found.
NoFontsFound ==
    /\ pc = "settings"
    /\ settings_left = 0
    /\ required_set = {} /\ bundled_fonts = {}
    /\ required_fonts' = SortedPairs(required_set)
    /\ temp_exists' = FALSE
    /\ returned' = <<>>
    /\ pc' = "done"
    /\ UNCHANGED <<closing_message, normVars, dry_run, drfx_left, inner_left, settings_left,
                   required_set, bundled_fonts, inventoryVars, matchVars, indexVars, chainVars,
                   acquireVars>>

FontsFound ==
    /\ pc = "settings"
    /\ settings_left = 0
    /\ ~(required_set = {} /\ bundled_fonts = {})
    /\ required_fonts' = SortedPairs(required_set)
    /\ pc' = "inventory"
    /\ UNCHANGED <<closing_message, normVars, returned, dry_run, temp_exists, drfx_left, inner_left, settings_left,
                   required_set, bundled_fonts, inventoryVars, matchVars,
                   indexVars, chainVars,
                   acquireVars>>

\* get_system_fonts_with_styles() and the loop that fills normalized_map.
BuildInventory ==
    /\ pc = "inventory"
    /\ \E platform \in Platforms,
          registry \in SeqsUpTo(InvNames, MaxRegistry),
          dirStems \in SeqsUpTo(InvNames, MaxDirFiles) :
        LET inv == get_system_fonts_with_styles(platform, registry, dirStems)
        IN  /\ system_fonts' = inv.fonts
            /\ lowercase_map' = inv.lowercase_map
            /\ installed_styles' = inv.styles
            /\ normalized_map' \in NormalizedMaps(inv.fonts)
    /\ pc' = "match"
    /\ UNCHANGED <<closing_message, normVars, returned, scanVars, matchVars, indexVars, chainVars,
                   acquireVars>>

\* ----------------------------------------------------- scan_all: match

\* Mutant of IsBundled: the comparison ignores case.
IsBundled_IgnoreCase(name, bundled) == ToLower(name) \in {ToLower(b) : b \in bundled}

\* name in bundled_fonts
IsBundled(name, bundled) == name \in bundled

\* Mutant of Classify: a family found without the style counts as not found.
Classify_StyleAsMissing(r) ==
    IF r.found /\ r.style_available THEN "available" ELSE "completely_missing"

\* The list a requirement that went through is_font_installed is appended to.
Classify(r) ==
    IF r.found THEN (IF r.style_available THEN "available" ELSE "style_missing")
    ELSE "completely_missing"

\* One pass of the loop over required_fonts.
MatchOne ==
    /\ pc = "match"
    /\ idx <= Len(required_fonts)
    /\ LET name  == required_fonts[idx][1]
           style == required_fonts[idx][2]
           r     == is_font_installed(name, style, system_fonts, lowercase_map,
                                      normalized_map, installed_styles)
           list  == IF IsBundled(name, bundled_fonts) THEN "available" ELSE Classify(r)
       IN  /\ match_log' = IF IsBundled(name, bundled_fonts) THEN match_log
                           ELSE Append(match_log, [name |-> name, style |-> style, result |-> r])
           /\ available' = IF list = "available"
                           THEN Append(available, <<name, style>>) ELSE available
           /\ style_missing' = IF list = "style_missing"
                               THEN Append(style_missing, <<name, style, r.matched_name>>)
                               ELSE style_missing
           /\ completely_missing' = IF list = "completely_missing"
                                    THEN Append(completely_missing, <<name, style>>)
                                    ELSE completely_missing
    /\ idx' = idx + 1
    /\ UNCHANGED <<closing_message, normVars, pc, returned, scanVars, inventoryVars, missing, indexVars, chainVars,
                   acquireVars>>

\* if dry_run: clean up and return missing
DryRunReturn ==
    /\ pc = "match"
    /\ idx > Len(required_fonts)
    /\ dry_run
    /\ missing' = style_missing \o completely_missing
    /\ temp_exists' = FALSE
    /\ returned' = missing'
    /\ pc' = "done"
    /\ UNCHANGED <<closing_message, normVars, dry_run, drfx_left, inner_left, settings_left,
                   required_set, required_fonts, bundled_fonts, inventoryVars, idx, available,
                   style_missing, completely_missing, match_log, indexVars, chainVars,
                   acquireVars>>

\* Nothing is missing: clean up and return the empty list.
NothingMissing ==
    /\ pc = "match"
    /\ idx > Len(required_fonts)
    /\ ~dry_run
    /\ style_missing \o completely_missing = <<>>
    /\ missing' = <<>>
    /\ temp_exists' = FALSE
    /\ returned' = <<>>
    /\ pc' = "done"
    /\ UNCHANGED <<closing_message, normVars, dry_run, drfx_left, inner_left, settings_left,
                   required_set, required_fonts, bundled_fonts, inventoryVars, idx, available,
                   style_missing, completely_missing, match_log, indexVars, chainVars,
                   acquireVars>>

\* Mutant of BeginResolve: dry_run is not looked at.
BeginResolve_IgnoreDryRun ==
    /\ pc = "match"
    /\ idx > Len(required_fonts)
    /\ style_missing \o completely_missing # <<>>
    /\ missing' = style_missing \o completely_missing
    /\ pc' = "index"
    /\ UNCHANGED <<closing_message, normVars, returned, scanVars, inventoryVars, idx, available, style_missing,
                   completely_missing, match_log, indexVars, chainVars, acquireVars>>

\* if missing and not dry_run: go on to the providers
BeginResolve ==
    /\ pc = "match"
    /\ idx > Len(required_fonts)
    /\ ~dry_run
    /\ style_missing \o completely_missing # <<>>
    /\ missing' = style_missing \o completely_missing
    /\ pc' = "index"
    /\ UNCHANGED <<closing_message, normVars, returned, scanVars, inventoryVars, idx, available, style_missing,
                   completely_missing, match_log, indexVars, chainVars,
                   acquireVars>>

\* ----------------------------------------------- get_google_fonts_index

\* Mutant of FetchCaught: only HTTP errors are caught.
FetchCaught_HttpOnly(outcome) == outcome \in {"forbidden", "http_error"}

\* The except clauses of get_google_fonts_index catch every failure of the fetch.
FetchCaught(outcome) == outcome \in {"forbidden", "http_error", "network", "malformed"}

\* One GET of the index: the try block of get_google_fonts_index.
FetchIndex ==
    /\ pc = "index"
    /\ fetch_count' = fetch_count + 1
    /\ \E outcome \in FetchOutcomes :
        /\ fetch_failed' = (outcome # "ok")
        /\ IF outcome = "ok"
           THEN /\ google_fonts_index' \in IndexChoices
                /\ pc' = "group"
           ELSE IF ~FetchCaught(outcome)
           THEN /\ google_fonts_index' = google_fonts_index
                /\ pc' = "raised"
           ELSE IF outcome = "forbidden"
           THEN /\ google_fonts_index' = google_fonts_index
                /\ pc' = "key_prompt"
           ELSE /\ google_fonts_index' = <<>>
                /\ pc' = "group"
    /\ UNCHANGED <<closing_message, normVars, returned, scanVars, inventoryVars, matchVars, api_key,
                   prompt_count, keys_given, chainVars,
                   acquireVars>>

\* The fetch was rejected with status 403 and the user typed a replacement
\* key: the function calls itself.
RetryWithNewKey ==
    /\ pc = "key_prompt"
    /\ keys_given < MaxKeys
    /\ \E new_key \in ApiKeys : api_key' = new_key
    /\ prompt_count' = prompt_count + 1
    /\ keys_given' = keys_given + 1
    /\ pc' = "index"
    /\ UNCHANGED <<closing_message, normVars, returned, scanVars, inventoryVars, matchVars, fetch_count,
                   fetch_failed, google_fonts_index, chainVars,
                   acquireVars>>

\* The fetch was rejected with status 403 and the user pressed Enter: return {}.
GiveUpKey ==
    /\ pc = "key_prompt"
    /\ prompt_count' = prompt_count + 1
    /\ google_fonts_index' = <<>>
    /\ pc' = "group"
    /\ UNCHANGED <<closing_message, normVars, returned, scanVars, inventoryVars, matchVars, api_key,
                   fetch_count, fetch_failed, keys_given, chainVars,
                   acquireVars>>

\* --------------------------------------------- scan_all: provider chain

\* Position of the entry of a family in the dict, 0 when it has none.
EntryOf(dict, name) ==
    IF \E i \in 1..Len(dict) : dict[i].name = name
    THEN CHOOSE i \in 1..Len(dict) : dict[i].name = name
    ELSE 0

\* Mutant of AddMissing: an entry per requirement, not per family.
AddMissing_PerRequirement(dict, info) ==
    Append(dict, [name |-> info[1], styles |-> <<info[2]>>,
                  matched_name |-> IF Len(info) = 2 THEN None ELSE info[3]])

\* One pass of the grouping loop: the entry is created when the family has
\* none, and the style is appended to the family's entry.
AddMissing(dict, info) ==
    LET name == info[1]
        matched == IF Len(info) = 2 THEN None ELSE info[3]
        at == EntryOf(dict, name)
    IN  IF at = 0
        THEN Append(dict, [name |-> name, styles |-> <<info[2]>>, matched_name |-> matched])
        ELSE [dict EXCEPT ![at].styles = Append(@, info[2])]

RECURSIVE GroupByFamily(_, _)
GroupByFamily(dict, infos) ==
    IF infos = <<>> THEN dict
    ELSE GroupByFamily(AddMissing(dict, Head(infos)), Tail(infos))

\* missing_fonts = {} and the loop over missing.
GroupMissing ==
    /\ pc = "group"
    /\ missing_fonts' = GroupByFamily(<<>>, missing)
    /\ chain_i' = 1
    /\ stage' = "index"
    /\ pc' = "chain"
    /\ UNCHANGED <<closing_message, normVars, returned, scanVars, inventoryVars, matchVars, indexVars,
                   to_download, alternative_sources, unavailable, answers,
                   acquireVars>>

\* get_available_variants
get_available_variants(font_family, index) ==
    IF font_family \in DOMAIN index THEN index[font_family] ELSE <<>>

\* if font in google_fonts_index: ... else: search_alternative_font_providers(font)
ResolveFamily ==
    /\ pc = "chain"
    /\ chain_i <= Len(missing_fonts)
    /\ stage = "index"
    /\ LET data == missing_fonts[chain_i]
       IN  IF data.name \in DOMAIN google_fonts_index
           THEN /\ to_download' = Append(to_download,
                        [name |-> data.name, styles |-> data.styles,
                         variants |-> get_available_variants(data.name, google_fonts_index),
                         source |-> "Google Fonts", matched_name |-> data.matched_name])
                /\ chain_i' = chain_i + 1
                /\ stage' = "index"
           ELSE /\ to_download' = to_download
                /\ chain_i' = chain_i
                /\ stage' = Providers[1]
    /\ UNCHANGED <<closing_message, normVars, pc, returned, scanVars, inventoryVars, matchVars, indexVars,
                   missing_fonts, alternative_sources, unavailable, answers,
                   acquireVars>>

\* Mutant of ScrapeResult: the search function has no except clause.
ScrapeResult_Uncaught(p, font_name, outcome) ==
    [url |-> IF outcome = "url" THEN <<p, font_name>> ELSE None,
     search_requests |-> 1,
     page_requests |-> IF outcome \in {"page_exception", "page_status", "no_download", "url"}
                       THEN 1 ELSE 0,
     raised |-> outcome \in {"search_exception", "page_exception"}]

\* One of search_1001fonts, search_dafont, search_freefont, called for
\* font_name, when its steps go as `outcome` says: GET of the search page
\* (exception, status), the candidate link, GET of the font page (exception,
\* status), the download link. It gives the value returned, the GETs issued
\* and whether an exception left the function.
ScrapeResult(p, font_name, outcome) ==
    IF outcome = "search_exception" THEN
        [url |-> None, search_requests |-> 1, page_requests |-> 0, raised |-> FALSE]
    ELSE IF outcome = "search_status" THEN
        [url |-> None, search_requests |-> 1, page_requests |-> 0, raised |-> FALSE]
    ELSE IF outcome = "no_candidate" THEN
        [url |-> None, search_requests |-> 1, page_requests |-> 0, raised |-> FALSE]
    ELSE IF outcome = "page_exception" THEN
        [url |-> None, search_requests |-> 1, page_requests |-> 1, raised |-> FALSE]
    ELSE IF outcome = "page_status" THEN
        [url |-> None, search_requests |-> 1, page_requests |-> 1, raised |-> FALSE]
    ELSE IF outcome = "no_download" THEN
        [url |-> None, search_requests |-> 1, page_requests |-> 1, raised |-> FALSE]
    ELSE
        [url |-> <<p, font_name>>, search_requests |-> 1, page_requests |-> 1, raised |-> FALSE]

\* Mutant of AfterProvider: every provider is asked, the last answer decides.
AfterProvider_AskAll(p, url) ==
    IF p = Providers[1] THEN Providers[2]
    ELSE IF p = Providers[2] THEN Providers[3]
    ELSE IF url # None THEN "found" ELSE "notfound"

\* Mutant of AfterProvider: the chain gives up after the second provider.
AfterProvider_SkipLast(p, url) ==
    IF url # None THEN "found"
    ELSE IF p = Providers[1] THEN Providers[2]
    ELSE "notfound"

\* What search_alternative_font_providers does with the answer of provider p:
\* return it ("found"), go on to the next provider, or return None ("notfound").
AfterProvider(p, url) ==
    IF url # None THEN "found"
    ELSE IF p = Providers[1] THEN Providers[2]
    ELSE IF p = Providers[2] THEN Providers[3]
    ELSE "notfound"

\* One search function (search_1001fonts, search_dafont, search_freefont) called
\* for the family of the loop, and what scan_all does when the chain returns.
Search(p) ==
    /\ pc = "chain"
    /\ chain_i <= Len(missing_fonts)
    /\ stage = p
    /\ \E outcome \in SearchOutcomes :
        LET data == missing_fonts[chain_i]
            url  == ScrapeResult(p, data.name, outcome).url
            next == AfterProvider(p, url)
        IN  /\ answers' = Append(answers, [provider |-> p, family |-> data.name, url |-> url])
            /\ alternative_sources' =
                    IF next = "found"
                    THEN Append(alternative_sources,
                            [name |-> data.name, styles |-> data.styles,
                             alt_source |-> [url |-> url, source |-> p],
                             matched_name |-> data.matched_name])
                    ELSE alternative_sources
            /\ unavailable' =
                    IF next = "notfound"
                    THEN Append(unavailable, <<data.name, data.styles>>)
                    ELSE unavailable
            /\ chain_i' = IF next \in {"found", "notfound"} THEN chain_i + 1 ELSE chain_i
            /\ stage' = IF next \in {"found", "notfound"} THEN "index" ELSE next
    /\ UNCHANGED <<closing_message, normVars, pc, returned, scanVars, inventoryVars, matchVars, indexVars,
                   missing_fonts, to_download,
                   acquireVars>>

Search1001 == Search(Providers[1])

SearchDafont == Search(Providers[2])

SearchFreefont == Search(Providers[3])

\* if to_download or alternative_sources: the download prompt comes next.
AskDownload ==
    /\ pc = "chain"
    /\ chain_i > Len(missing_fonts)
    /\ to_download # <<>> \/ alternative_sources # <<>>
    /\ pc' = "ask_download"
    /\ UNCHANGED <<closing_message, normVars, returned, scanVars, inventoryVars, matchVars, indexVars, chainVars,
                   acquireVars>>

\* Nothing can be downloaded: final report, clean up, return missing.
NoDownloads ==
    /\ pc = "chain"
    /\ chain_i > Len(missing_fonts)
    /\ to_download = <<>> /\ alternative_sources = <<>>
    /\ temp_exists' = FALSE
    /\ returned' = missing
    /\ pc' = "done"
    /\ UNCHANGED <<closing_message, normVars, dry_run, drfx_left, inner_left, settings_left,
                   required_set, required_fonts, bundled_fonts, inventoryVars, matchVars,
                   indexVars, chainVars,
                   acquireVars>>

\* __main__ after scan_all returned:
\* if missing_fonts and not args.dryrun: print("Missing fonts detected, ...")
\* else: print("All required fonts are available.")
MainReport ==
    /\ pc = "done"
    /\ closing_message = ""
    /\ closing_message' = IF returned # <<>> /\ ~dry_run
                          THEN "Missing fonts detected, proceeding to download..."
                          ELSE "All required fonts are available."
    /\ UNCHANGED <<normVars, pc, returned, scanVars, inventoryVars, matchVars, indexVars,
                   chainVars, acquireVars>>

Next ==
    \/ PathMissing \/ PathFound
    \/ ScanDrfx \/ ScanInner \/ EndDrfx \/ ScanSetting \/ NoFontsFound \/ FontsFound
    \/ BuildInventory
    \/ MatchOne \/ DryRunReturn \/ NothingMissing \/ BeginResolve
    \/ FetchIndex \/ RetryWithNewKey \/ GiveUpKey
    \/ GroupMissing \/ ResolveFamily
    \/ Search1001 \/ SearchDafont \/ SearchFreefont
    \/ AskDownload \/ NoDownloads
    \/ MainReport

Spec == Init /\ [][Next]_vars

\* ------------------------------------------------- scan_all: downloads

\* choice != "1" at the download prompt: nothing is downloaded.
DeclineDownload ==
    /\ pc = "ask_download"
    /\ pc' = "report"
    /\ UNCHANGED <<closing_message, normVars, returned, scanVars, inventoryVars, matchVars, indexVars,
                   chainVars, acquireVars>>

\* Mutant of AnyMatched: the replacement prompt comes whatever is missing.
AnyMatched_Always(dict) == TRUE

\* any(data["matched_name"] is not None for data in missing_fonts.values())
AnyMatched(dict) == \E e \in 1..Len(dict) : dict[e].matched_name # None

\* The loop scan_all enters when the loop over the first i - 1 entries of
\* `loop` is through: the next non-empty download loop, or the install.
NextDownload(loop, i) ==
    IF loop = "google" /\ i <= Len(to_download) THEN [pc |-> "download", stage |-> "google", i |-> i]
    ELSE IF loop = "google" /\ alternative_sources # <<>>
         THEN [pc |-> "download", stage |-> "alt", i |-> 1]
    ELSE IF loop = "alt" /\ i <= Len(alternative_sources)
         THEN [pc |-> "download", stage |-> "alt", i |-> i]
    ELSE [pc |-> "install_start", stage |-> "alt", i |-> i]

\* choice == "1": replace_existing = False, and the prompt for it when a
\* missing family has a matched name.
AcceptDownload ==
    /\ pc = "ask_download"
    /\ replace_existing' = FALSE
    /\ unsuccessful_downloads' = <<>>
    /\ IF AnyMatched(missing_fonts)
       THEN pc' = "ask_replace" /\ UNCHANGED <<dl_stage, dl_i>>
       ELSE LET n == NextDownload("google", 1)
            IN  pc' = n.pc /\ dl_stage' = n.stage /\ dl_i' = n.i
    /\ UNCHANGED <<closing_message, normVars, returned, scanVars, inventoryVars, matchVars, indexVars,
                   chainVars, download_only, staged, download_log, installVars>>

\* replace_existing = (replace_choice == 'y' or replace_choice == 'yes')
AnswerReplace ==
    /\ pc = "ask_replace"
    /\ replace_existing' \in BOOLEAN
    /\ LET n == NextDownload("google", 1)
       IN  pc' = n.pc /\ dl_stage' = n.stage /\ dl_i' = n.i
    /\ UNCHANGED <<closing_message, normVars, returned, scanVars, inventoryVars, matchVars, indexVars,
                   chainVars, download_only, staged, unsuccessful_downloads, download_log,
                   installVars>>

\* The first bytes of a payload: b'OTTO', b'\x00\x01\x00\x00'.
SignatureOTTO == <<79, 84, 84, 79>>

SignatureTrueType == <<0, 1, 0, 0>>

\* header.startswith(prefix)
StartsWith(header, prefix) ==
    Len(header) >= Len(prefix) /\ SubSeq(header, 1, Len(prefix)) = prefix

\* A file under TEMP_DIR/fonts.
FontPath(dir, name) == [dir |-> dir, name |-> name]

ExtOtf == <<".", "o", "t", "f">>

ExtTtf == <<".", "t", "t", "f">>

\* fonts_dir.rglob("*.[ot]tf")
IsFontFile(path) ==
    /\ Len(path.name) >= 4
    /\ SubSeq(path.name, Len(path.name) - 3, Len(path.name)) \in {ExtOtf, ExtTtf}

FontFiles(files) == {f \in files : IsFontFile(f)}

\* What a GET of a download URL ends with: an exception ("error": the
\* request fails, the status is an error, the file cannot be written, the
\* archive is damaged), a zip archive with its members, or a payload that is
\* no zip archive, with its first four bytes.
LicenceTxt == FontPath("", <<"O", "F", "L", ".", "t", "x", "t">>)

FuturaBoldTtf == FuturaBold \o ExtTtf

InterVariableTtf == Inter \o <<"-", "V", "a", "r", "i", "a", "b", "l", "e">> \o ExtTtf

ZipContents ==
    {{LicenceTxt},
     {LicenceTxt, FontPath("", FuturaBoldTtf), FontPath("static", FuturaBoldTtf)},
     {FontPath("", InterVariableTtf)}}

RawHeaders == {SignatureOTTO, SignatureTrueType, <<60, 104, 116, 109>>, <<79, 84>>}

Payloads ==
    {[kind |-> "error", files |-> {}, header |-> <<>>]}
        \cup {[kind |-> "zip", files |-> z, header |-> <<80, 75, 3, 4>>] : z \in ZipContents}
        \cup {[kind |-> "raw", files |-> {}, header |-> h] : h \in RawHeaders}

\* Mutant of GoogleExtension: the default extension is never replaced.
GoogleExtension_AlwaysTtf(header) == ExtTtf

\* download_google_font: the extension of a payload that is no zip archive.
GoogleExtension(header) ==
    IF StartsWith(header, SignatureOTTO) THEN ExtOtf
    ELSE IF StartsWith(header, SignatureTrueType) THEN ExtTtf
    ELSE ExtTtf

\* download_google_font(family, ...) on a payload: the files under
\* TEMP_DIR/fonts afterwards and the value returned.
download_google_font(family, payload, files) ==
    CASE payload.kind = "error" -> [ok |-> FALSE, files |-> files, staged_as |-> None]
      [] payload.kind = "zip" ->
            [ok |-> TRUE, files |-> files \cup payload.files, staged_as |-> None]
      [] OTHER ->
            LET font_path == FontPath("", family \o GoogleExtension(payload.header))
            IN  [ok |-> TRUE, files |-> files \cup {font_path}, staged_as |-> font_path]

\* download_font_from_alternative_source: is_font
IsFontSignature(header) ==
    StartsWith(header, SignatureOTTO) \/ StartsWith(header, SignatureTrueType)

AltExtension(header) == IF StartsWith(header, SignatureOTTO) THEN ExtOtf ELSE ExtTtf

\* download_font_from_alternative_source(font_info, ...) on a payload.
download_font_from_alternative_source(font_name, payload, files) ==
    CASE payload.kind = "error" -> [ok |-> FALSE, files |-> files, staged_as |-> None]
      [] payload.kind = "zip" ->
            [ok |-> FontFiles(files \cup payload.files) # {},
             files |-> files \cup payload.files, staged_as |-> None]
      [] OTHER ->
            IF IsFontSignature(payload.header)
            THEN LET font_path == FontPath("", font_name \o AltExtension(payload.header))
                 IN  [ok |-> TRUE, files |-> files \cup {font_path}, staged_as |-> font_path]
            ELSE [ok |-> FALSE, files |-> files, staged_as |-> None]

\* One pass of the loop over to_download.
DownloadGoogle ==
    /\ pc = "download"
    /\ dl_stage = "google"
    /\ \E payload \in Payloads :
        LET data == to_download[dl_i]
            r == download_google_font(data.name, payload, staged)
        IN  /\ staged' = r.files
            /\ unsuccessful_downloads' =
                    IF r.ok THEN unsuccessful_downloads
                    ELSE Append(unsuccessful_downloads, <<data.name, data.styles, "Google Fonts">>)
            /\ download_log' = Append(download_log,
                    [family |-> data.name, source |-> "Google Fonts", payload |-> payload,
                     ok |-> r.ok, staged_as |-> r.staged_as, before |-> staged,
                     after |-> r.files])
    /\ temp_exists' = TRUE
    /\ LET n == NextDownload("google", dl_i + 1)
       IN  pc' = n.pc /\ dl_stage' = n.stage /\ dl_i' = n.i
    /\ UNCHANGED <<closing_message, normVars, returned, dry_run, drfx_left, inner_left, settings_left,
                   required_set, required_fonts, bundled_fonts, inventoryVars, matchVars,
                   indexVars, chainVars, download_only, replace_existing, installVars>>

\* One pass of the loop over alternative_sources.
DownloadAlternative ==
    /\ pc = "download"
    /\ dl_stage = "alt"
    /\ \E payload \in Payloads :
        LET data == alternative_sources[dl_i]
            r == download_font_from_alternative_source(data.name, payload, staged)
        IN  /\ staged' = r.files
            /\ unsuccessful_downloads' =
                    IF r.ok THEN unsuccessful_downloads
                    ELSE Append(unsuccessful_downloads,
                                <<data.name, data.styles, data.alt_source.source>>)
            /\ download_log' = Append(download_log,
                    [family |-> data.name, source |-> data.alt_source.source,
                     payload |-> payload, ok |-> r.ok, staged_as |-> r.staged_as,
                     before |-> staged, after |-> r.files])
    /\ temp_exists' = TRUE
    /\ LET n == NextDownload("alt", dl_i + 1)
       IN  pc' = n.pc /\ dl_stage' = n.stage /\ dl_i' = n.i
    /\ UNCHANGED <<closing_message, normVars, returned, dry_run, drfx_left, inner_left, settings_left,
                   required_set, required_fonts, bundled_fonts, inventoryVars, matchVars,
                   indexVars, chainVars, download_only, replace_existing, installVars>>

\* ----------------------------------------------- install_fonts_from_temp

\* map[k] = v, k added to the keys when it is none.
Put(map, k, v) == [x \in DOMAIN map \cup {k} |-> IF x = k THEN v ELSE map[x]]

\* The start of install_fonts_from_temp(replace_existing): the counters, the
\* fonts under TEMP_DIR/fonts, and the files the font directory holds by then.
BeginInstall ==
    /\ pc = "install_start"
    /\ installed_count' = 0
    /\ replaced_count' = 0
    /\ variable_count' = 0
    /\ skipped_count' = 0
    /\ pending' = FontFiles(staged)
    /\ \E names \in SUBSET {f.name : f \in FontFiles(staged)} :
        dest' = [n \in names |-> "old"]
    /\ install_last' = NoInstall
    /\ pc' = "install"
    /\ UNCHANGED <<closing_message, normVars, returned, scanVars, inventoryVars, matchVars, indexVars,
                   chainVars, download_only, downloadVars>>

\* What reading a staged font finds: an fvar table, none, or an exception.
FontContents == {"fvar", "plain", "unreadable"}

\* is_variable_font(font_path): 'fvar' in font, False on any exception.
is_variable_font(content) == content = "fvar"

\* "variable" in font_file.stem.lower()
NamedVariable(path) ==
    Contains(ToLower(SubSeq(path.name, 1, Len(path.name) - 4)),
             <<"v", "a", "r", "i", "a", "b", "l", "e">>)

\* Mutant of MustSkip: the flag is read the wrong way round.
MustSkip_FlagInverted(exists, replace, is_variable) == exists /\ ~(~replace \/ is_variable)

\* Mutant of MustSkip: `not` binds to replace_existing alone.
MustSkip_Precedence(exists, replace, is_variable) == (exists /\ ~replace) \/ is_variable

\* dest_path.exists() and not (replace_existing or is_variable)
MustSkip(exists, replace, is_variable) == exists /\ ~(replace \/ is_variable)

\* One pass of the loop over the staged fonts. shutil.copy either copies the
\* file or raises, and nothing catches what it raises.
InstallOne ==
    /\ pc = "install"
    /\ pending # {}
    /\ \E font_file \in pending, content \in FontContents, copied \in BOOLEAN :
        LET is_variable == is_variable_font(content)
            exists == font_file.name \in DOMAIN dest
            skip == MustSkip(exists, replace_existing, is_variable)
            before == [installed |-> installed_count, replaced |-> replaced_count,
                       variable |-> variable_count, skipped |-> skipped_count, dest |-> dest]
        IN  /\ skip => copied
            /\ skipped_count' = IF skip THEN skipped_count + 1 ELSE skipped_count
            /\ replaced_count' = IF ~skip /\ exists THEN replaced_count + 1 ELSE replaced_count
            /\ installed_count' = IF ~skip /\ ~exists THEN installed_count + 1
                                  ELSE installed_count
            /\ dest' = IF ~skip /\ copied THEN Put(dest, font_file.name, font_file) ELSE dest
            /\ variable_count' = IF ~skip /\ copied /\ is_variable THEN variable_count + 1
                                 ELSE variable_count
            /\ install_last' = [path |-> font_file, content |-> content,
                                existed |-> exists, variable |-> is_variable,
                                copy |-> IF skip THEN "skipped"
                                         ELSE IF copied THEN "copied" ELSE "failed",
                                before |-> before]
            /\ pending' = pending \ {font_file}
            /\ pc' = IF ~skip /\ ~copied THEN "raised" ELSE "install"
    /\ UNCHANGED <<closing_message, normVars, returned, scanVars, inventoryVars, matchVars, indexVars,
                   chainVars, download_only, downloadVars>>

\* The loop is through: the summary is printed and the function returns.
InstallDone ==
    /\ pc = "install"
    /\ pending = {}
    /\ pc' = "report"
    /\ UNCHANGED <<closing_message, normVars, returned, scanVars, inventoryVars, matchVars, indexVars,
                   chainVars, acquireVars>>

\* The final report, the removal of TEMP_DIR and return missing.
FinalReport ==
    /\ pc = "report"
    /\ temp_exists' = FALSE
    /\ returned' = missing
    /\ pc' = "done"
    /\ UNCHANGED <<closing_message, normVars, dry_run, drfx_left, inner_left, settings_left,
                   required_set, required_fonts, bundled_fonts, inventoryVars, matchVars,
                   indexVars, chainVars, acquireVars>>

\* ------------------------------------ scan_all from the download prompt

\* The runs that reach the download prompt, by what became of the two
\* families: Futura absent from the requirements, in the index ("google") or
\* found by 1001Fonts ("alt"), with only Futura Bold installed (sm) or
\* nothing; Inter absent, found by DaFont ("alt") or found nowhere; a .drfx
\* archive unpacked (temp) or none.
Scenarios ==
    {sc \in [fut : {"absent", "google", "alt"}, sm : BOOLEAN,
             int : {"absent", "alt", "unavailable"}, temp : BOOLEAN] :
        sc.fut = "absent" => (~sc.sm /\ sc.int = "alt")}

\* The state of scan_all at the download prompt in the run of scenario sc.
AtPrompt(sc) ==
    LET reqs == (IF sc.fut = "absent" THEN <<>> ELSE <<<<Futura, Regular>>>>)
                    \o (IF sc.int = "absent" THEN <<>> ELSE <<<<Inter, Regular>>>>)
        inv == get_system_fonts_with_styles("Darwin",
                    IF sc.sm THEN <<FuturaBold>> ELSE <<>>, <<>>)
        nmap == CHOOSE m \in NormalizedMaps(inv.fonts) : TRUE
        res(r) == is_font_installed(r[1], r[2], inv.fonts, inv.lowercase_map, nmap, inv.styles)
        sms == IF sc.sm THEN <<<<Futura, Regular, FuturaBold>>>> ELSE <<>>
        cms == SelectSeq(reqs, LAMBDA r : ~(sc.sm /\ r[1] = Futura))
        matched == IF sc.sm THEN FuturaBold ELSE None
        url1 == <<Providers[1], Futura>>
        url2 == <<Providers[2], Inter>>
    IN  /\ pc = "ask_download"
        /\ returned = None
        /\ temp_exists = sc.temp
        /\ drfx_left = 0
        /\ inner_left = 0
        /\ settings_left = 0
        /\ required_set = Range(reqs)
        /\ required_fonts = reqs
        /\ bundled_fonts = {}
        /\ system_fonts = inv.fonts
        /\ lowercase_map = inv.lowercase_map
        /\ installed_styles = inv.styles
        /\ normalized_map = nmap
        /\ idx = Len(reqs) + 1
        /\ available = <<>>
        /\ style_missing = sms
        /\ completely_missing = cms
        /\ match_log = [i \in 1..Len(reqs) |->
                            [name |-> reqs[i][1], style |-> reqs[i][2], result |-> res(reqs[i])]]
        /\ missing = sms \o cms
        /\ api_key = "k0"
        /\ fetch_count = 1
        /\ fetch_failed = FALSE
        /\ prompt_count = 0
        /\ keys_given = 0
        /\ google_fonts_index =
                IF sc.fut = "google" THEN [f \in {Futura} |-> <<"regular", "700">>] ELSE <<>>
        /\ missing_fonts = GroupByFamily(<<>>, sms \o cms)
        /\ chain_i = Len(reqs) + 1
        /\ stage = "index"
        /\ to_download =
                IF sc.fut = "google"
                THEN <<[name |-> Futura, styles |-> <<Regular>>,
                        variants |-> <<"regular", "700">>, source |-> "Google Fonts",
                        matched_name |-> matched]>>
                ELSE <<>>
        /\ alternative_sources =
                (IF sc.fut = "alt"
                 THEN <<[name |-> Futura, styles |-> <<Regular>>,
                         alt_source |-> [url |-> url1, source |-> Providers[1]],
                         matched_name |-> matched]>>
                 ELSE <<>>)
                \o (IF sc.int = "alt"
                    THEN <<[name |-> Inter, styles |-> <<Regular>>,
                            alt_source |-> [url |-> url2, source |-> Providers[2]],
                            matched_name |-> None]>>
                    ELSE <<>>)
        /\ unavailable = IF sc.int = "unavailable" THEN <<<<Inter, <<Regular>>>>>> ELSE <<>>
        /\ answers =
                (IF sc.fut = "alt"
                 THEN <<[provider |-> Providers[1], family |-> Futura, url |-> url1]>>
                 ELSE <<>>)
                \o (IF sc.int = "alt"
                    THEN <<[provider |-> Providers[1], family |-> Inter, url |-> None],
                           [provider |-> Providers[2], family |-> Inter, url |-> url2]>>
                    ELSE IF sc.int = "unavailable"
                    THEN [k \in 1..Len(Providers) |->
                            [provider |-> Providers[k], family |-> Inter, url |-> None]]
                    ELSE <<>>)

InitAcquire ==
    /\ NormIdle
    /\ ScrapeIdle
    /\ MatchIdle
    /\ ExtractIdle
    /\ dry_run = FALSE
    /\ download_only \in BOOLEAN
    /\ AcquireStart
    /\ closing_message = ""
    /\ \E sc \in Scenarios : AtPrompt(sc)

NextAcquire ==
    \/ DeclineDownload \/ AcceptDownload \/ AnswerReplace
    \/ DownloadGoogle \/ DownloadAlternative
    \/ BeginInstall \/ InstallOne \/ InstallDone
    \/ FinalReport
    \/ MainReport

SpecAcquire == InitAcquire /\ [][NextAcquire]_vars

\* --------------------------------------------- normalize_font_name alone

\* Characters of the inputs of SpecNorm: enough to spell the tokens ps and mt,
\* with an upper-case letter, a digit, the underscore and a separator.
NormAlphabet == {"p", "s", "P", "m", "t", "-", "_", "1"}

InitNorm ==
    /\ npc = "in"
    /\ nx \in SeqsUpTo(NormAlphabet, MaxNameLen)
    /\ n1 = <<>>
    /\ n2 = <<>>
    /\ MatchIdle
    /\ ExtractIdle
    /\ ScrapeIdle
    /\ MainStart("idle")
    /\ dry_run = FALSE
    /\ download_only = FALSE

NormalizeOnce ==
    /\ npc = "in"
    /\ n1' = normalize_font_name(nx)
    /\ npc' = "once"
    /\ UNCHANGED <<nx, n2, mpc, m_name, m_style, m_inv, m_order, m_nmap, m_result, extractVars, scrapeVars, mainVars>>

NormalizeTwice ==
    /\ npc = "once"
    /\ n2' = normalize_font_name(n1)
    /\ npc' = "twice"
    /\ UNCHANGED <<nx, n1, mpc, m_name, m_style, m_inv, m_order, m_nmap, m_result, extractVars, scrapeVars, mainVars>>

NextNorm == NormalizeOnce \/ NormalizeTwice

SpecNorm == InitNorm /\ [][NextNorm]_vars

\* ----------------------------------------------- is_font_installed alone

\* The inventories a host can have, as scan_all gets them.
Inventories ==
    {get_system_fonts_with_styles(platform, registry, dirStems) :
        platform \in Platforms,
        registry \in SeqsUpTo(MatchInvNames, MaxRegistry),
        dirStems \in SeqsUpTo(MatchInvNames, MaxDirFiles)}

InitMatch ==
    /\ mpc = "in"
    /\ m_name \in MatchFamilies
    /\ m_style \in MatchStyles
    /\ m_inv \in Inventories
    /\ m_order \in Orders(m_inv.fonts)
    /\ m_nmap = FillNormalized(<<>>, m_order)
    /\ m_result = None
    /\ NormIdle
    /\ ScrapeIdle
    /\ ExtractIdle
    /\ MainStart("idle")
    /\ dry_run = FALSE
    /\ download_only = FALSE

\* The call of is_font_installed in the loop over required_fonts.
CallMatcher ==
    /\ mpc = "in"
    /\ m_result' = is_font_installed(m_name, m_style, m_inv.fonts, m_inv.lowercase_map,
                                     m_nmap, m_inv.styles)
    /\ mpc' = "out"
    /\ UNCHANGED <<npc, nx, n1, n2, m_name, m_style, m_inv, m_order, m_nmap, extractVars, scrapeVars, mainVars>>

NextMatch == CallMatcher

SpecMatch == InitMatch /\ [][NextMatch]_vars

\* ------------------------------------- the extraction of scan_all alone


\* The bag of the elements of a sequence.
RECURSIVE BagOfSeq(_)
BagOfSeq(q) ==
    IF q = <<>> THEN EmptyBag ELSE SetToBag({Head(q)}) (+) BagOfSeq(Tail(q))

InitExtract ==
    /\ xpc = "read"
    /\ x_left \in 0..MaxExtract
    /\ x_raw = EmptyBag
    /\ x_required = {}
    /\ x_last = NoFile
    /\ x_failed = FALSE
    /\ x_out = <<>>
    /\ NormIdle
    /\ ScrapeIdle
    /\ MatchIdle
    /\ MainStart("idle")
    /\ dry_run = FALSE
    /\ download_only = FALSE

\* One pass of a loop over .setting files: required_fonts.update(parse_fonts_from_setting(sf)).
ExtractOne ==
    /\ xpc = "read"
    /\ x_left > 0
    /\ \E sf \in SettingFiles :
        LET fonts == parse_fonts_from_setting(sf)
        IN  /\ x_required' = x_required \cup Range(fonts)
            /\ x_raw' = x_raw (+) BagOfSeq(fonts)
            /\ x_last' = [read |-> sf.read, fonts |-> Len(fonts), found |-> Len(sf.fonts),
                          diagnostic |-> ParseDiagnostic(sf),
                          matches |-> sf.fonts, style_matches |-> sf.styles,
                          pairs |-> fonts]
            /\ x_failed' = (x_failed \/ sf.read \notin {"ok", "decode"})
    /\ x_left' = x_left - 1
    /\ UNCHANGED <<npc, nx, n1, n2, mpc, m_name, m_style, m_inv, m_order, m_nmap, m_result,
                   xpc, x_out, scrapeVars, mainVars>>

\* required_fonts = sorted(set(required_fonts))
ExtractSort ==
    /\ xpc = "read"
    /\ x_left = 0
    /\ x_out' = SortedPairs(x_required)
    /\ xpc' = "sorted"
    /\ UNCHANGED <<npc, nx, n1, n2, mpc, m_name, m_style, m_inv, m_order, m_nmap, m_result,
                   x_left, x_raw, x_required, x_last, x_failed, scrapeVars, mainVars>>

NextExtract == ExtractOne \/ ExtractSort

SpecExtract == InitExtract /\ [][NextExtract]_vars

\* ------------------------------ search_alternative_font_providers alone

InitScrape ==
    /\ spc = Providers[1]
    /\ s_name \in ReqFamilies
    /\ s_calls = <<>>
    /\ s_result = [url |-> None, source |-> None]
    /\ npc = "idle" /\ nx = <<>> /\ n1 = <<>> /\ n2 = <<>>
    /\ MatchIdle
    /\ ExtractIdle
    /\ MainStart("idle")
    /\ dry_run = FALSE
    /\ download_only = FALSE

\* url = search_...(font_name); if url: return {"url": url, "source": ...}
ProviderCall(p) ==
    /\ spc = p
    /\ \E outcome \in SearchOutcomes :
        LET r == ScrapeResult(p, s_name, outcome)
            next == AfterProvider(p, r.url)
        IN  /\ s_calls' = Append(s_calls,
                    [provider |-> p, outcome |-> outcome, url |-> r.url,
                     search_requests |-> r.search_requests,
                     page_requests |-> r.page_requests])
            /\ spc' = IF r.raised THEN "raised"
                      ELSE IF next \in {"found", "notfound"} THEN "returned"
                      ELSE next
            /\ s_result' = IF ~r.raised /\ next = "found"
                           THEN [url |-> r.url, source |-> p]
                           ELSE [url |-> None, source |-> None]
    /\ UNCHANGED <<npc, nx, n1, n2, mpc, m_name, m_style, m_inv, m_order, m_nmap, m_result,
                   extractVars, s_name, mainVars>>

search_1001fonts == ProviderCall(Providers[1])

search_dafont == ProviderCall(Providers[2])

search_freefont == ProviderCall(Providers[3])

NextScrape == search_1001fonts \/ search_dafont \/ search_freefont

SpecScrape == InitScrape /\ [][NextScrape]_vars

\* ---------------------------------------------------------------- claims

\* The search requests issued for family f, in the order issued.
AnswersFor(f) == SelectSeq(answers, LAMBDA a : a.family = f)

ProviderRank(p) == CHOOSE i \in 1..Len(Providers) : Providers[i] = p

EntriesFor(dict, f) == {i \in 1..Len(dict) : dict[i].name = f}

UnavailableFor(f) == {i \in 1..Len(unavailable) : unavailable[i][1] = f}

\* The families whose pass of the provider loop is over.
ResolvedFamilies == {missing_fonts[k].name : k \in 1..(chain_i - 1)}

ChainOver == pc \in {"ask_download", "done"} /\ missing_fonts # <<>>

\* C1: once a provider has returned a reference for a family, no later
\* provider is asked for that family; the scrape providers are asked in the
\* fixed order; a family that is a key of the index is never searched for.
C1_ShortCircuit ==
    /\ \A i, j \in 1..Len(answers) :
        (i < j /\ answers[i].family = answers[j].family) =>
            /\ answers[i].url = None
            /\ ProviderRank(answers[i].provider) < ProviderRank(answers[j].provider)
    /\ \A i \in 1..Len(answers) : answers[i].family \notin DOMAIN google_fonts_index

\* C1 witness: the loop is over, one family came from the index and another
\* from the first scrape provider.
C1_Witness ==
    /\ ChainOver
    /\ to_download # <<>>
    /\ \E i \in 1..Len(alternative_sources) :
        /\ alternative_sources[i].alt_source.source = Providers[1]
        /\ Len(AnswersFor(alternative_sources[i].name)) = 1

\* C2: every resolved family is in exactly one of to_download,
\* alternative_sources and unavailable; it is unavailable only if it is no key
\* of the index and the three scrape providers, asked in order, all returned
\* nothing; otherwise it carries the source of the first provider with a
\* reference.
C2_Classification ==
    \A f \in ResolvedFamilies :
        LET asked == AnswersFor(f)
            inIdx == EntriesFor(to_download, f)
            inAlt == EntriesFor(alternative_sources, f)
            inUn  == UnavailableFor(f)
        IN  /\ Cardinality(inIdx) + Cardinality(inAlt) + Cardinality(inUn) = 1
            /\ inIdx # {} <=> f \in DOMAIN google_fonts_index
            /\ \A i \in inIdx : to_download[i].source = "Google Fonts" /\ asked = <<>>
            /\ inUn # {} =>
                /\ f \notin DOMAIN google_fonts_index
                /\ Len(asked) = Len(Providers)
                /\ \A k \in 1..Len(asked) :
                    asked[k].provider = Providers[k] /\ asked[k].url = None
            /\ \A i \in inAlt :
                /\ asked # <<>>
                /\ \A k \in 1..Len(asked) :
                    /\ asked[k].provider = Providers[k]
                    /\ asked[k].url # None <=> k = Len(asked)
                /\ alternative_sources[i].alt_source.source = asked[Len(asked)].provider
                /\ alternative_sources[i].alt_source.url = asked[Len(asked)].url

\* C2 witness: the loop is over with one family unavailable and another
\* found by the second scrape provider.
C2_Witness ==
    /\ ChainOver
    /\ unavailable # <<>>
    /\ \E i \in 1..Len(alternative_sources) :
        alternative_sources[i].alt_source.source = Providers[2]

\* The styles of the missing requirements of family f, in the order of missing.
RECURSIVE StylesMissingOf(_, _)
StylesMissingOf(infos, f) ==
    IF infos = <<>> THEN <<>>
    ELSE (IF Head(infos)[1] = f THEN <<Head(infos)[2]>> ELSE <<>>)
            \o StylesMissingOf(Tail(infos), f)

C4_AtMostOneRetry ==
    /\ fetch_count <= 2
    /\ fetch_count = 2 => pc # "key_prompt"

\* C5: get_google_fonts_index never raises; when its fetch failed the index
\* is empty, the run goes on, and each missing family is searched for on the
\* scrape providers.
C5_IndexFailureContained ==
    /\ pc # "raised"
    /\ (fetch_failed /\ pc \in {"group", "chain", "ask_download", "done"}) =>
        /\ google_fonts_index = <<>>
        /\ to_download = <<>>
        /\ \A f \in ResolvedFamilies :
            AnswersFor(f) # <<>> /\ AnswersFor(f)[1].provider = Providers[1]
    /\ (fetch_failed /\ ChainOver) =>
        \A k \in 1..Len(missing) : missing[k][1] \in ResolvedFamilies

\* C5 witness: the fetch failed and the provider loop went through two
\* families.
C5_Witness ==
    /\ fetch_failed
    /\ ChainOver
    /\ Cardinality(ResolvedFamilies) = 2

\* C6: the match kind follows the precedence exact, case-insensitive,
\* normalized; with no match the result is not found with an empty name.
C6_MatchPrecedence ==
    mpc # "in" =>
        LET exact == m_name \in m_inv.fonts
            ci    == ToLower(m_name) \in DOMAIN m_inv.lowercase_map
            norm  == normalize_font_name(m_name) \in DOMAIN m_nmap
        IN  /\ exact =>
                m_result.match_type = "exact match" /\ m_result.matched_name = m_name
            /\ m_result.match_type = "case-insensitive match" <=> (~exact /\ ci)
            /\ m_result.match_type = "case-insensitive match" =>
                m_result.matched_name = m_inv.lowercase_map[ToLower(m_name)]
            /\ m_result.match_type = "normalized match" <=> (~exact /\ ~ci /\ norm)
            /\ m_result.match_type = "normalized match" =>
                m_result.matched_name = m_nmap[normalize_font_name(m_name)]
            /\ m_result.found <=> (exact \/ ci \/ norm)
            /\ ~m_result.found =>
                m_result.matched_name = <<>> /\ m_result.match_type = ""

\* C6 witness: an exact match while the lowercase map and the normalized map
\* both lead to another font.
C6_Witness ==
    /\ mpc = "out"
    /\ m_name \in m_inv.fonts
    /\ ToLower(m_name) \in DOMAIN m_inv.lowercase_map
    /\ m_inv.lowercase_map[ToLower(m_name)] # m_name
    /\ normalize_font_name(m_name) \in DOMAIN m_nmap
    /\ m_nmap[normalize_font_name(m_name)] # m_name

\* C7: with a family match the style is satisfied iff the required style is
\* among the styles of the matched font or Regular is; without a family
\* match it is not satisfied. (Futura, Bold) against an inventory of only
\* futura is a case-insensitive match with the style satisfied.
C7_StyleSatisfaction ==
    mpc # "in" =>
        LET styles == m_inv.styles[m_result.matched_name]
        IN  /\ m_result.found =>
                (m_result.style_available <=>
                    (\E k \in 1..Len(styles) : styles[k] = m_style)
                        \/ (\E k \in 1..Len(styles) : styles[k] = Regular))
            /\ ~m_result.found => ~m_result.style_available
            /\ (m_name = Futura /\ m_style = Bold /\ m_inv.fonts = {FuturaLc}) =>
                /\ m_result.match_type = "case-insensitive match"
                /\ m_result.style_available

\* C7 witness: the Futura example was matched.
C7_Witness ==
    /\ mpc = "out"
    /\ m_name = Futura
    /\ m_style = Bold
    /\ m_inv.fonts = {FuturaLc}
    /\ m_inv.styles[FuturaLc] = <<Regular>>

\* The family of a requirement is matched by one of the three lookups.
FamilyFound(name) ==
    \/ name \in system_fonts
    \/ ToLower(name) \in DOMAIN lowercase_map
    \/ normalize_font_name(name) \in DOMAIN normalized_map

\* The requirements the matching loop has gone through.
Matched == {required_fonts[i] : i \in 1..(idx - 1)}

InAvailable(r) == {i \in 1..Len(available) : available[i] = r}

InStyleMissing(r) == {i \in 1..Len(style_missing) : SubSeq(style_missing[i], 1, 2) = r}

InCompletelyMissing(r) == {i \in 1..Len(completely_missing) : completely_missing[i] = r}

\* The calls of is_font_installed for requirement r.
CallsFor(r) == {i \in 1..Len(match_log) : match_log[i].name = r[1] /\ match_log[i].style = r[2]}

\* C9: every matched requirement is in exactly one of available,
\* style_missing and completely_missing; it is style-missing iff it is not
\* bundled and is_font_installed found its family without the style (the
\* entry carries the matched name), completely missing iff it is not bundled
\* and is_font_installed did not find its family; after grouping, the
\* families of both lists are the keys of missing_fonts.
C9_Partition ==
    /\ \A r \in Matched :
        LET bundled == r[1] \in bundled_fonts
        IN  /\ Cardinality(InAvailable(r)) + Cardinality(InStyleMissing(r))
                    + Cardinality(InCompletelyMissing(r)) = 1
            /\ InStyleMissing(r) # {} <=>
                /\ ~bundled
                /\ \E c \in CallsFor(r) :
                    match_log[c].result.found /\ ~match_log[c].result.style_available
            /\ \A i \in InStyleMissing(r) : \A c \in CallsFor(r) :
                style_missing[i][3] = match_log[c].result.matched_name
            /\ InCompletelyMissing(r) # {} <=>
                (~bundled /\ \E c \in CallsFor(r) : ~match_log[c].result.found)
    /\ Len(available) + Len(style_missing) + Len(completely_missing) = idx - 1
    /\ pc \in {"chain", "ask_download"} =>
        {missing_fonts[e].name : e \in 1..Len(missing_fonts)}
            = {style_missing[i][1] : i \in 1..Len(style_missing)}
                \cup {completely_missing[i][1] : i \in 1..Len(completely_missing)}

\* C9 witness: after grouping, with a style-missing requirement whose family
\* the inventory holds and a completely missing one whose family it lacks.
C9_Witness ==
    /\ pc = "chain"
    /\ \E i \in 1..Len(style_missing) : FamilyFound(style_missing[i][1])
    /\ \E i \in 1..Len(completely_missing) : ~FamilyFound(completely_missing[i][1])
    /\ available # <<>>

\* C10: a requirement whose family is in bundled_fonts is available, was
\* never given to is_font_installed and is no key of missing_fonts; a
\* requirement whose family is not literally in bundled_fonts is given to
\* is_font_installed.
C10_BundledOverride ==
    \A r \in Matched :
        LET calls == CallsFor(r)
        IN  /\ r[1] \in bundled_fonts =>
                /\ InAvailable(r) # {}
                /\ calls = {}
                /\ EntriesFor(missing_fonts, r[1]) = {}
                /\ \A k \in 1..Len(missing) : missing[k][1] # r[1]
            /\ r[1] \notin bundled_fonts => calls # {}

\* C10 witness: a bundled family that the inventory does not hold, required
\* with a style, while another requirement went to the providers.
C10_Witness ==
    /\ pc = "chain"
    /\ \E r \in Matched :
        /\ r[1] \in bundled_fonts
        /\ r[2] = Bold
        /\ ~FamilyFound(r[1])

\* C8: normalize_font_name is idempotent: normalizing a normalized name
\* gives the same name again.
C8_Idempotent == npc = "twice" => n2 = n1

\* C11: the sorted requirement list holds each (family, style) pair at most
\* once, is no longer than the number of raw pairs extracted, holds every raw
\* pair exactly once and nothing else, and is ordered by family name.
C11_Deduplicated ==
    xpc = "sorted" =>
        /\ \A i, j \in 1..Len(x_out) : x_out[i] = x_out[j] => i = j
        /\ Len(x_out) <= BagCardinality(x_raw)
        /\ \A p \in BagToSet(x_raw) : Cardinality({i \in 1..Len(x_out) : x_out[i] = p}) = 1
        /\ \A i \in 1..Len(x_out) : BagIn(x_out[i], x_raw)
        /\ \A i, j \in 1..Len(x_out) :
            i < j => (x_out[i][1] = x_out[j][1] \/ StrLess(x_out[i][1], x_out[j][1]))

\* C11 witness: a pair was extracted twice, and the list holds two families
\* and two styles of one family.
C11_Witness ==
    /\ xpc = "sorted"
    /\ BagCardinality(x_raw) > Len(x_out)
    /\ \E i, j \in 1..Len(x_out) : x_out[i][1] # x_out[j][1]
    /\ \E i, j \in 1..Len(x_out) : x_out[i][1] = x_out[j][1] /\ x_out[i][2] # x_out[j][2]

\* C12 as stated: a file that was not read cleanly (open fails, permission
\* denied or decoding fails) gives zero requirements and a diagnostic.
C12_ZeroOnAnyFailure ==
    x_last.read \notin {"none", "ok"} => (x_last.fonts = 0 /\ x_last.diagnostic # "")

\* C12 amended: a file that could not be read (permission denied, any other
\* error, or the latin-1 retry failing after a utf-8 decoding error) gives
\* zero requirements and a diagnostic; a file that fails utf-8 decoding and
\* is read as latin-1 gives the pairs found in it, and a diagnostic; either
\* way the loop goes on to the sort with every file read.
C12_ExtractionFailureScoped ==
    /\ x_last.read \in {"permission", "decode_error", "error"} =>
        (x_last.fonts = 0 /\ x_last.diagnostic # "")
    /\ x_last.read = "decode" => (x_last.fonts = x_last.found /\ x_last.diagnostic # "")
    /\ x_last.read = "ok" => (x_last.fonts = x_last.found /\ x_last.diagnostic = "")
    /\ xpc = "sorted" => x_left = 0
    /\ x_failed => xpc \in {"read", "sorted"}

\* C12 witness: after a file that could not be read, another file gave its
\* pairs and the list was sorted.
C12_Witness ==
    /\ xpc = "sorted"
    /\ x_failed
    /\ x_last.read = "ok"
    /\ x_last.fonts > 0
    /\ x_out # <<>>

\* The downloads whose payload was no zip archive, by what it starts with.
RawDownloads(prefixes) ==
    {i \in 1..Len(download_log) :
        /\ download_log[i].payload.kind = "raw"
        /\ \E p \in prefixes : StartsWith(download_log[i].payload.header, p)}

\* The family and source of download i are reported as unsuccessful.
ReportedUnsuccessful(i) ==
    \E u \in 1..Len(unsuccessful_downloads) :
        /\ unsuccessful_downloads[u][1] = download_log[i].family
        /\ unsuccessful_downloads[u][3] = download_log[i].source

\* C13: in both download paths a payload that is no zip archive is staged
\* as <family>.otf when it starts with OTTO and as <family>.ttf when it
\* starts with 00 01 00 00, and the download is successful.
C13_RawClassification ==
    /\ \A i \in RawDownloads({SignatureOTTO}) :
        /\ download_log[i].ok
        /\ download_log[i].staged_as = FontPath("", download_log[i].family \o ExtOtf)
        /\ download_log[i].after = download_log[i].before \cup {download_log[i].staged_as}
        /\ ~ReportedUnsuccessful(i)
    /\ \A i \in RawDownloads({SignatureTrueType}) :
        /\ download_log[i].ok
        /\ download_log[i].staged_as = FontPath("", download_log[i].family \o ExtTtf)
        /\ download_log[i].after = download_log[i].before \cup {download_log[i].staged_as}
        /\ ~ReportedUnsuccessful(i)

\* C13 witness: an OTTO payload from the index source and a TrueType payload
\* from an alternative source, both staged.
C13_Witness ==
    /\ \E i \in RawDownloads({SignatureOTTO}) : download_log[i].source = "Google Fonts"
    /\ \E i \in RawDownloads({SignatureTrueType}) : download_log[i].source = Providers[2]
    /\ FontPath("", Futura \o ExtOtf) \in staged
    /\ FontPath("", Inter \o ExtTtf) \in staged

\* C14: in every download path a payload that is no zip archive and starts
\* with neither signature stages nothing and is reported unsuccessful for
\* its family and source.
C14_UnrecognizedFails ==
    \A i \in 1..Len(download_log) :
        (download_log[i].payload.kind = "raw"
            /\ i \notin RawDownloads({SignatureOTTO, SignatureTrueType})) =>
            /\ ~download_log[i].ok
            /\ download_log[i].staged_as = None
            /\ download_log[i].after = download_log[i].before
            /\ ReportedUnsuccessful(i)

\* A pass of the install loop has happened.
InstallPassed == install_last.copy # "none"

\* C15: an existing destination file, replace_existing false and a staged
\* font that is not variable: no copy, the destination is as before, the
\* skip counter is one more, the installed and replaced counters are as before.
C15_SkipPolicy ==
    (InstallPassed /\ install_last.existed /\ ~replace_existing /\ ~install_last.variable) =>
        /\ install_last.copy = "skipped"
        /\ dest = install_last.before.dest
        /\ skipped_count = install_last.before.skipped + 1
        /\ installed_count = install_last.before.installed
        /\ replaced_count = install_last.before.replaced

\* C15 witness: a font whose destination exists was skipped after another
\* one was installed.
C15_Witness ==
    /\ install_last.copy = "skipped"
    /\ install_last.existed
    /\ ~replace_existing
    /\ installed_count > 0

\* The passes of the install loop so far.
Processed == Cardinality(FontFiles(staged)) - Cardinality(pending)

\* C16: shutil.copy is called for a staged font iff the destination does not
\* exist, or replace_existing is true, or the font is variable; the pass
\* counts it as installed when the destination did not exist and as replaced
\* when it did; installed + replaced + skipped is the number of fonts gone
\* through, all of them when the install is over; variable never exceeds
\* installed + replaced.
C16_WritePolicy ==
    /\ InstallPassed =>
        LET r == install_last
            called == r.copy \in {"copied", "failed"}
        IN  /\ called <=> (~r.existed \/ replace_existing \/ r.variable)
            /\ r.copy = "copied" => dest = Put(r.before.dest, r.path.name, r.path)
            /\ installed_count = r.before.installed + (IF called /\ ~r.existed THEN 1 ELSE 0)
            /\ replaced_count = r.before.replaced + (IF called /\ r.existed THEN 1 ELSE 0)
            /\ skipped_count = r.before.skipped + (IF called THEN 0 ELSE 1)
    /\ pc \in {"install", "raised", "report", "done"} =>
        /\ installed_count + replaced_count + skipped_count = Processed
        /\ variable_count <= installed_count + replaced_count
    /\ pc \in {"report", "done"} =>
        installed_count + replaced_count + skipped_count = Cardinality(FontFiles(staged))

\* C16 witness: the install is over with a font installed, one replaced
\* because it is variable, and one skipped.
C16_Witness ==
    /\ pc = "report"
    /\ ~replace_existing
    /\ installed_count > 0
    /\ replaced_count > 0
    /\ skipped_count > 0
    /\ variable_count > 0

\* C17: a copy that fails does not end the install or the run: the loop
\* goes through every staged font.
C17_InstallErrorScoped ==
    /\ pc # "raised"
    /\ pc \in {"report", "done"} => pending = {}

\* C18: when a run has ended, TEMP_DIR does not exist.
C18_StagingRemoved == pc \in {"done", "raised"} => ~temp_exists

\* C19: with dry_run no index is fetched, no key is asked for, no provider
\* is searched, nothing is downloaded or installed, and the list returned is
\* style_missing followed by completely_missing.
C19_DryRunOnlyClassifies ==
    dry_run =>
        /\ fetch_count = 0
        /\ prompt_count = 0
        /\ answers = <<>>
        /\ to_download = <<>> /\ alternative_sources = <<>>
        /\ download_log = <<>>
        /\ staged = {}
        /\ ~InstallPassed
        /\ pc \in {"start", "drfx", "inner", "settings", "inventory", "match", "done"}
        /\ pc = "done" => returned = style_missing \o completely_missing

\* C19 witness: a dry run returned a style-missing and a completely missing
\* requirement.
C19_Witness ==
    /\ dry_run
    /\ pc = "done"
    /\ style_missing # <<>>
    /\ completely_missing # <<>>
    /\ Len(returned) = Len(style_missing) + Len(completely_missing)

\* C20: with --downloadonly no font is installed into the font directory.
C20_DownloadOnly ==
    download_only =>
        /\ installed_count = 0 /\ replaced_count = 0
        /\ \A n \in DOMAIN dest : dest[n] = "old"

\* C21: a descriptor that was read with n family occurrences and m style
\* occurrences gives exactly n pairs, in text order; the i-th pair is the
\* i-th family with the i-th style when there is one, and with "Regular"
\* when there is none (both stripped of surrounding blanks); styles beyond
\* the n-th give no pair.
C21_PositionalPairing ==
    x_last.read \in {"ok", "decode"} =>
        LET n == Len(x_last.matches)
            m == Len(x_last.style_matches)
        IN  /\ Len(x_last.pairs) = n
            /\ \A i \in 1..n :
                    /\ x_last.pairs[i][1] = Strip(x_last.matches[i])
                    /\ i <= m => x_last.pairs[i][2] = Strip(x_last.style_matches[i])
                    /\ i > m => x_last.pairs[i][2] = Regular

\* C21 witness: two families and one style were found and the second family
\* was paired with "Regular".
C21_Witness ==
    /\ x_last.read = "ok"
    /\ Len(x_last.matches) = 2
    /\ Len(x_last.style_matches) = 1
    /\ x_last.pairs[1][2] = Bold
    /\ x_last.pairs[2][2] = Regular

\* C22: a search function that fails at any step (exception or status of
\* the search request, no candidate link, exception or status of the font
\* page, no download link) returns None and raises nothing; the chain then
\* calls the next provider, or returns None after the last one; each call
\* issues one search request and at most one font-page request.
C22_ScrapeFailureContained ==
    /\ spc # "raised"
    /\ \A k \in 1..Len(s_calls) :
        LET c == s_calls[k]
        IN  /\ c.outcome # "url" => c.url = None
            /\ c.search_requests <= 1
            /\ c.page_requests <= 1
            /\ c.provider = Providers[k]
            /\ (c.url = None /\ k < 3) =>
                    IF k < Len(s_calls) THEN s_calls[k + 1].provider = Providers[k + 1]
                    ELSE spc = Providers[k + 1]
            /\ (c.url = None /\ k = 3) => (spc = "returned" /\ s_result.url = None)
            /\ c.url # None =>
                    (k = Len(s_calls) /\ spc = "returned" /\ s_result = [url |-> c.url, source |-> c.provider])

\* C22 witness: the first provider failed on its font page, the second
\* raised inside its search request, and the third was asked and answered.
C22_Witness ==
    /\ Len(s_calls) = 3
    /\ s_calls[1].outcome = "page_status"
    /\ s_calls[2].outcome = "search_exception"
    /\ s_calls[3].url # None
    /\ spc = "returned"

\* C23: a staged font whose file name contains "variable", or which holds
\* an fvar table, is treated as variable by the installer: when its
\* destination exists it is overwritten, whatever replace_existing is.
C23_VariableFlag ==
    (/\ InstallPassed
     /\ install_last.existed
     /\ NamedVariable(install_last.path) \/ install_last.content = "fvar")
        => (install_last.variable /\ install_last.copy # "skipped")

\* C24: replace_existing is false whenever no requirement is style-missing,
\* and it does not change once the prompts are answered: the downloads, the
\* install of every staged font and the report see one value.
C24_RunWideFlag ==
    /\ [](style_missing = <<>> => ~replace_existing)
    /\ [][pc \notin {"ask_download", "ask_replace"} => replace_existing' = replace_existing]_vars

\* C24 witness: with a style-missing and a completely-missing requirement
\* and the flag set, a font that is not variable replaced an existing file.
C24_Witness ==
    /\ style_missing # <<>>
    /\ completely_missing # <<>>
    /\ replace_existing
    /\ install_last.copy = "copied"
    /\ install_last.existed
    /\ ~install_last.variable

\* The font of `order` seen first among those with the normalized key k.
FirstSeen(order, k) ==
    order[CHOOSE i \in DOMAIN order :
            /\ normalize_font_name(order[i]) = k
            /\ \A j \in 1..(i - 1) : normalize_font_name(order[j]) # k]

\* C25: for every key of the normalized map the map holds the font the loop
\* saw first with that key, and a normalized match reports that font.
C25_FirstSeenKept ==
    mpc = "out" =>
        /\ \A k \in DOMAIN m_nmap : m_nmap[k] = FirstSeen(m_order, k)
        /\ m_result.match_type = "normalized match" =>
                m_result.matched_name = FirstSeen(m_order, normalize_font_name(m_name))

\* C26: download_font_from_alternative_source reports an archive as
\* downloaded iff the archive itself holds a .ttf or .otf file, whatever
\* the staging directory held before.
C26_ArchiveWithoutFonts ==
    \A i \in 1..Len(download_log) :
        LET d == download_log[i]
        IN  (d.source # "Google Fonts" /\ d.payload.kind = "zip") =>
                /\ d.ok <=> FontFiles(d.payload.files) # {}
                /\ ~d.ok <=> ReportedUnsuccessful(i)

\* C27: "All required fonts are available." is printed only when the scan
\* found no style-missing and no completely-missing requirement, dry run
\* included, and never when scan_all returned a list that is not empty.
C27_ReportConsistent ==
    closing_message = "All required fonts are available." =>
        /\ style_missing = <<>> /\ completely_missing = <<>>
        /\ returned = <<>>
====
